---- MODULE Spec2Model ----
(***************************************************************************)
(* A model of package sqlaux (the MapStruct-based version): the mapping    *)
(* registry built by MapStruct/MapType during init(), Scan, which binds    *)
(* the columns of a result set to the fields of its destinations, and      *)
(* Buildstr, which writes the fields of records as SQL text.               *)
(*                                                                         *)
(* Go strings are sequences of one-character strings, so that ToLower,     *)
(* Index, Split, Fields and "+" are computed as the code computes them.    *)
(***************************************************************************)
EXTENDS Integers, Sequences, FiniteSets, TLC

VARIABLES mapping, typemap, phase, last,
          pc, col, ts, ref, i, j, stru, rsa, dest, dest0, dargs, rows, err,
          bdata, bfield, bsql

vars == <<mapping, typemap, phase, last,
          pc, col, ts, ref, i, j, stru, rsa, dest, dest0, dargs, rows, err,
          bdata, bfield, bsql>>

regvars == <<mapping, typemap, phase, last>>
scanvars == <<pc, col, ts, ref, i, j, stru, rsa, dest, dest0, dargs, rows, err>>
buildvars == <<bdata, bfield, bsql>>

(***************************************************************************)
(* Bounds of the model.                                                    *)
(***************************************************************************)
\* rows a cursor delivers at most
MaxRows == 2
\* elements a slice passed to Buildstr holds at most
MaxElems == 2
\* distinct rows a cursor can deliver (row v holds v*ValBase + column index)
MaxVal == 2

(***************************************************************************)
(* package strings / unicode                                               *)
(***************************************************************************)
UpperChars == <<"A","B","C","D","E","F","G","H","I","J","K","L","M",
                "N","O","P","Q","R","S","T","U","V","W","X","Y","Z">>
LowerChars == <<"a","b","c","d","e","f","g","h","i","j","k","l","m",
                "n","o","p","q","r","s","t","u","v","w","x","y","z">>

IsUpper(c) == \E k \in DOMAIN UpperChars : UpperChars[k] = c

ToLowerCh(c) ==
    IF IsUpper(c)
    THEN LowerChars[CHOOSE k \in DOMAIN UpperChars : UpperChars[k] = c]
    ELSE c

RECURSIVE ToLower(_)
ToLower(s) ==
    IF s = <<>> THEN <<>> ELSE <<ToLowerCh(Head(s))>> \o ToLower(Tail(s))

\* strings.Contains(s, sub)
Contains(s, sub) ==
    \E k \in 0..(Len(s) - Len(sub)) : SubSeq(s, k + 1, k + Len(sub)) = sub

\* strings.Index(s, sub): the 0-based index of the first sub in s, or -1
Index(s, sub) ==
    LET hits == {k \in 0..(Len(s) - Len(sub)) :
                    SubSeq(s, k + 1, k + Len(sub)) = sub}
    IN  IF hits = {} THEN -1
        ELSE CHOOSE k \in hits : \A h \in hits : k <= h

\* strings.LastIndex(s, sub): the 0-based index of the last sub in s, or -1
LastIndex(s, sub) ==
    LET hits == {k \in 0..(Len(s) - Len(sub)) :
                    SubSeq(s, k + 1, k + Len(sub)) = sub}
    IN  IF hits = {} THEN -1
        ELSE CHOOSE k \in hits : \A h \in hits : k >= h

\* s[from:] with a 0-based from
SliceFrom(s, from) == SubSeq(s, from + 1, Len(s))
\* s[:to] with a 0-based, exclusive to
SliceTo(s, to) == SubSeq(s, 1, to)

\* strings.Split(s, sep) for a non-empty sep
RECURSIVE Split(_, _)
Split(s, sep) ==
    LET k == Index(s, sep)
    IN  IF k = -1 THEN <<s>>
        ELSE <<SliceTo(s, k)>> \o Split(SliceFrom(s, k + Len(sep)), sep)

IsSpace(c) == c = " "

\* strings.Fields(s): the maximal runs of non-space characters
RECURSIVE FieldsAcc(_, _)
FieldsAcc(s, cur) ==
    IF s = <<>> THEN (IF cur = <<>> THEN <<>> ELSE <<cur>>)
    ELSE IF IsSpace(Head(s))
         THEN (IF cur = <<>> THEN <<>> ELSE <<cur>>) \o FieldsAcc(Tail(s), <<>>)
         ELSE FieldsAcc(Tail(s), Append(cur, Head(s)))

Fields(s) == FieldsAcc(s, <<>>)

(***************************************************************************)
(* package reflect: the types of the program.  A reflect.Type is named by  *)
(* its String(); Kind, Name and the struct fields are tables.              *)
(***************************************************************************)
NilType == "nil"

\* a struct field: reflect.StructField's Name, Type, Offset and Tag.Get(Tag)
Fld(n, t, o, g) == [Name |-> n, Type |-> t, Offset |-> o, tag |-> g]

StructFields ==
    [ P     |-> << Fld(<<"A">>, "int", 0, <<>>),
                   Fld(<<"B">>, "string", 8, <<>>) >>,
      Q     |-> << Fld(<<"P","a","d">>, "int", 0, <<>>),
                   Fld(<<"C">>, "int", 8, <<"c","o","l","=","a">>) >>,
      R     |-> << Fld(<<"C">>, "int", 0, <<>>) >>,
      Item  |-> << Fld(<<"I","D">>, "int", 0, <<"c","o","l","=","i","d">>),
                   Fld(<<"N","a","m","e">>, "string", 8, <<>>) >>,
      Deep  |-> << Fld(<<"V">>, "int", 0, <<>>) >>,
      Inner |-> << Fld(<<"Y">>, "[]string", 0,
                       <<"p","k"," ","c","o","l","=","y","y">>),
                   Fld(<<"D","e">>, "Deep", 24, <<>>),
                   Fld(<<"Z">>, "time.Time", 32, <<>>) >>,
      O     |-> << Fld(<<"X">>, "int", 0,
                       <<"n","o","n","u","l","l"," ","l","e","n","=","9">>),
                   Fld(<<"a","a">>, "int", 8, <<>>),
                   Fld(<<"I","n">>, "Inner", 16, <<>>),
                   Fld(<<"W">>, "strslice", 72, <<"c","o","l","=","w">>) >>,
      E     |-> << Fld(<<"A">>, "int", 0, <<>>),
                   Fld(<<"B">>, "string", 8, <<"c","o","l","=","a">>) >>,
      F     |-> << Fld(<<"Y","y">>, "int", 0, <<>>),
                   Fld(<<"I","n">>, "Inner", 8, <<>>) >>,
      G     |-> << Fld(<<"A">>, "int", 0, <<"c","o","l","=","A","b">>) >>,
      H     |-> << Fld(<<"A">>, "int", 0, <<"l","e","n","=","9"," ","c","o","l","=">>) >>,
      S     |-> << Fld(<<"I","n">>, "Deep", 0, <<"c","o","l","=","d">>),
                   Fld(<<"V">>, "int", 8, <<>>) >>,
      K     |-> << Fld(<<"A">>, "int", 0, <<>>),
                   Fld(<<"B">>, "int", 8, <<"c","o","l">>) >>,
      N     |-> << Fld(<<"U">>, "int", 0, <<>>),
                   Fld(<<"D","e">>, "Deep", 8, <<>>),
                   Fld(<<"O","k">>, "bool", 16, <<>>) >>,
      Anon  |-> << Fld(<<"A">>, "int", 0, <<>>) >> ]

StructTypes == DOMAIN StructFields \cup {"time.Time"}

\* reflect.Type.Kind()
Kind(t) ==
    IF t \in StructTypes THEN "struct"
    ELSE IF t \in {"[]string", "strslice", "strslice2"} THEN "slice"
    ELSE t

\* reflect.Type.Name(): empty for an unnamed type
Name(t) ==
    CASE t = "P" -> <<"P">>
      [] t = "Q" -> <<"Q">>
      [] t = "R" -> <<"R">>
      [] t = "Item" -> <<"I","t","e","m">>
      [] t = "Deep" -> <<"D","e","e","p">>
      [] t = "Inner" -> <<"I","n","n","e","r">>
      [] t = "O" -> <<"O">>
      [] t = "E" -> <<"E">>
      [] t = "F" -> <<"F">>
      [] t = "G" -> <<"G">>
      [] t = "H" -> <<"H">>
      [] t = "K" -> <<"K">>
      [] t = "S" -> <<"S">>
      [] t = "N" -> <<"N">>
      [] t = "bool" -> <<"b","o","o","l">>
      [] t = "int" -> <<"i","n","t">>
      [] t = "string" -> <<"s","t","r","i","n","g">>
      [] t = "strslice" -> <<"s","t","r","s","l","i","c","e">>
      [] t = "strslice2" -> <<"s","t","r","s","l","i","c","e","2">>
      [] t = "time.Time" -> <<"T","i","m","e">>
      [] OTHER -> <<>>

NumField(t) == Len(StructFields[t])
Field(t, k) == StructFields[t][k]

\* the underlying type of a type
Underlying(t) ==
    IF t \in {"[]string", "strslice", "strslice2"} THEN "[]string" ELSE t

\* reflect.Type.ConvertibleTo, for the types of this program
ConvertibleTo(a, b) ==
    \/ Underlying(a) = Underlying(b)
    \/ a = "int" /\ b = "string"

(***************************************************************************)
(* The struct tag variables and the registry.                              *)
(***************************************************************************)
Key == <<"c","o","l">>
Op == <<"=">>

Dot == <<".">>

\* entryT
entryT(name, offset, typ) == [name |-> name, offset |-> offset, typ |-> typ]

\* the nil interface value held by entryT.name
NoName == <<>>

\* m[k] = v of a Go map
Put(m, k, v) == [x \in (DOMAIN m) \cup {k} |-> IF x = k THEN v ELSE m[x]]

Has(m, k) == k \in DOMAIN m

EmptyMap == [x \in {} |-> x]

\* the errors of the package
ErrNil == "nil"
ErrNotInit == "must be called in init()"
ErrInvalid == "invalid struct"
ErrMapped == "already mapped"
ErrBadTag == "bad tagged 'col'"
ErrDupCol == "duplicate column map"
ErrTypeMapped == "type already mapped"
ErrNotConvertible == "not convertible"
ErrNoMapping == "has no mapping"
ErrBadDest == "not like *[]*struct"
ErrNoDest == "no dest argument"
ErrRowScan == "rows.Scan"
ErrRows == "rows.Err"
ErrDataNil == "data is nil"
ErrBadData == "argument 'data' bad type"
ErrNoStruct == "struct has no mapping"
ErrNoField == "has no field"
ErrNilElem == "data[i] is nil"
ErrNoValue == "cannot be valued"
\* a run-time panic: the call does not return
Panic == "panic"

(***************************************************************************)
(* isinit: the call stack of the caller, innermost frame first (the frame  *)
(* of MapStruct/MapType itself), as runtime.Callers(2, pc) sees it.        *)
(***************************************************************************)
\* len(pc) in isinit
MaxFrames == 10

InitMark == <<".","i","n","i","t",".">>

isinit(stack) ==
    \E f \in 1..(IF Len(stack) < MaxFrames THEN Len(stack) ELSE MaxFrames) :
        Contains(stack[f], InitMark)

(***************************************************************************)
(* MapStruct and initmap                                                   *)
(***************************************************************************)
\* the loop over the tokens of a tag: the column name of the first token
\* whose key is Key.  fc[1] of a token without Op panics.
RECURSIVE tagloop(_, _)
tagloop(vs, default) ==
    IF vs = <<>> THEN [col |-> default, got |-> FALSE, panic |-> FALSE]
    ELSE LET fc == Split(Head(vs), Op)
         IN  IF fc[1] = Key
             THEN IF Len(fc) < 2
                  THEN [col |-> default, got |-> FALSE, panic |-> TRUE]
                  ELSE [col |-> fc[2], got |-> TRUE, panic |-> FALSE]
             ELSE tagloop(Tail(vs), default)

\* the column name of a field: its tagged name, else its lowercase name
tagcol(tt) ==
    IF tt.tag # <<>>
    THEN tagloop(Fields(tt.tag), ToLower(tt.Name))
    ELSE [col |-> ToLower(tt.Name), got |-> FALSE, panic |-> FALSE]

\* the mapped type of a field type, if typemap has one
mappedType(tm, nt) == IF Has(tm, nt) THEN tm[nt] ELSE nt

\* recursive that also descends into a struct field with a tagged column
recursiveTagged(tt, got) ==
    Kind(tt.Type) = "struct" /\ tt.Type # "time.Time"

\* whether initmap descends into the field instead of mapping it
recursive(tt, got) ==
    ~got /\ Kind(tt.Type) = "struct" /\ tt.Type # "time.Time"

badcol(c) == c = <<>> \/ ToLower(c) # c

\* "0."+s+"."+tt.Name
key0(s, name) == <<"0">> \o Dot \o s \o Dot \o name

\* "1."+the-most-outer-struct+"."+column
key1(s, c) ==
    LET dot == Index(s, Dot)
    IN  IF dot = -1 THEN <<"1">> \o Dot \o s \o Dot \o c
        ELSE <<"1">> \o Dot \o SliceTo(s, dot + 1) \o c

\* the field name without the most outer struct
fieldpath(s, name) ==
    LET dot == Index(s, Dot)
    IN  IF dot = -1 THEN name ELSE SliceFrom(s, dot + 1) \o Dot \o name

\* fieldOffset that forgets the offset of the enclosing struct
fieldOffsetLocal(b, tt) == tt.Offset

\* the global offset of a field of a struct at offset b
fieldOffset(b, tt) == b + tt.Offset

\* duplicate that never finds the column
duplicateNever(m, sss) == FALSE

\* whether the column of a field is already mapped in the outer struct
duplicate(m, sss) == Has(m, sss)

RECURSIVE initmapFrom(_, _, _, _, _, _, _)
\* initmap's loop from field k on, with the field names fs found so far;
\* m is the registry, which keeps what was written when an error returns
initmapFrom(m, tm, s, t, b, k, fs) ==
    IF k > NumField(t) THEN [m |-> m, fs |-> fs, err |-> ErrNil]
    ELSE
    LET tt == Field(t, k)
    IN  IF ~IsUpper(tt.Name[1])
        THEN initmapFrom(m, tm, s, t, b, k + 1, fs)
        ELSE
        LET nt  == mappedType(tm, tt.Type)
            tc  == tagcol(tt)
            c   == tc.col
        IN  IF tc.panic THEN [m |-> m, fs |-> <<>>, err |-> Panic]
            ELSE IF recursive(tt, tc.got)
            THEN LET r == initmapFrom(m, tm, s \o Dot \o tt.Name, tt.Type,
                                      fieldOffset(b, tt), 1, <<>>)
                 IN  IF r.err # ErrNil THEN [m |-> r.m, fs |-> <<>>, err |-> r.err]
                     ELSE initmapFrom(r.m, tm, s, t, b, k + 1, fs \o r.fs)
            ELSE IF badcol(c) THEN [m |-> m, fs |-> <<>>, err |-> ErrBadTag]
            ELSE LET m1  == Put(m, key0(s, tt.Name),
                                entryT(c, fieldOffset(b, tt), nt))
                     sss == key1(s, c)
                     fs1 == Append(fs, fieldpath(s, tt.Name))
                 IN  IF duplicate(m1, sss)
                     THEN [m |-> m1, fs |-> <<>>, err |-> ErrDupCol]
                     ELSE initmapFrom(
                            Put(m1, sss, entryT(NoName, fieldOffset(b, tt), nt)),
                            tm, s, t, b, k + 1, fs1)

initmap(m, tm, s, t, b) == initmapFrom(m, tm, s, t, b, 1, <<>>)

\* mapped that never finds the mark
mappedNever(m, s) == FALSE

\* whether the struct named s is marked as mapped
mapped(m, s) == Has(m, s)

RECURSIVE MapStructLoop(_, _, _)
\* the loop of MapStruct over its arguments (reflect.Type of each, indirected)
MapStructLoop(m, tm, args) ==
    IF args = <<>> THEN [m |-> m, err |-> ErrNil]
    ELSE LET d == Head(args)
             s == Name(d)
         IN  IF s = <<>> \/ Kind(d) # "struct" THEN [m |-> m, err |-> ErrInvalid]
             ELSE IF mapped(m, s) THEN [m |-> m, err |-> ErrMapped]
             ELSE LET r == initmap(m, tm, s, d, 0)
                  IN  IF r.err # ErrNil THEN [m |-> r.m, err |-> r.err]
                      ELSE MapStructLoop(
                             Put(r.m, s, entryT(r.fs, 0, NilType)), tm, Tail(args))

MapStructOp(m, tm, stack, args) ==
    IF ~isinit(stack) THEN [m |-> m, err |-> ErrNotInit]
    ELSE MapStructLoop(m, tm, args)

(***************************************************************************)
(* MapType                                                                 *)
(***************************************************************************)
\* the update of the registry: every entry of type ov gets type sv
retype(m, ov, sv) ==
    [k \in DOMAIN m |-> IF m[k].typ = ov
                        THEN [m[k] EXCEPT !.typ = sv] ELSE m[k]]

MapTypeOp(m, tm, stack, ov, sv) ==
    IF ~isinit(stack) THEN [m |-> m, tm |-> tm, err |-> ErrNotInit]
    ELSE IF Has(tm, ov) THEN [m |-> m, tm |-> tm, err |-> ErrTypeMapped]
    ELSE IF ~ConvertibleTo(ov, sv)
         THEN [m |-> m, tm |-> tm, err |-> ErrNotConvertible]
    ELSE [m |-> retype(m, ov, sv), tm |-> Put(tm, ov, sv), err |-> ErrNil]

(***************************************************************************)
(* Scan and scanField.  A struct value is a function from the global       *)
(* offsets of its scalar fields to values; a slice is a record of its      *)
(* nil-ness and its elements; the value of column c of row v is <<v, c>>.  *)
(***************************************************************************)
Zero == <<0, 0>>

RECURSIVE Slots(_, _)
\* the offsets of the scalar fields of a struct of type t placed at offset b
Slots(t, b) ==
    UNION { LET tt == Field(t, k)
            IN  IF Kind(tt.Type) = "struct" /\ tt.Type # "time.Time"
                THEN Slots(tt.Type, b + tt.Offset)
                ELSE {b + tt.Offset}
            : k \in 1..NumField(t) }

\* reflect.New(t): a zeroed struct
New(t) == [o \in Slots(t, 0) |-> Zero]

\* MakeSlice that yields the zero value of the slice type
MakeSliceZero == [isnil |-> TRUE, e |-> <<>>]

\* reflect.MakeSlice(t, 0, 0)
MakeSlice == [isnil |-> FALSE, e |-> <<>>]
NilSlice == [isnil |-> TRUE, e |-> <<>>]
\* reflect.Append(s, x)
AppendSlice(s, x) == [isnil |-> FALSE, e |-> Append(s.e, x)]

\* the type of a dest argument of Scan: its constructors from the outside
\* in, then its base type (*[]*P is <<"ptr", "slice", "ptr", "P">>); the
\* nil interface has the base "nil"
PtrSliceOfPtr(t) == <<"ptr", "slice", "ptr", t>>

\* reflect.Type.Elem(): it panics for a type that has no element type
HasElem(t) == Len(t) > 1
Elem(t) == Tail(t)

\* reflect.Type.Kind() of a dest argument type
KindOf(t) == IF Len(t) > 1 THEN t[1] ELSE Kind(t[1])

\* reflect.Type.String()
RECURSIVE TypeString(_)
TypeString(t) ==
    IF Len(t) = 1
    THEN IF t[1] \in StructTypes THEN <<"m", ".">> \o Name(t[1]) ELSE Name(t[1])
    ELSE (CASE t[1] = "ptr" -> <<"*">>
            [] t[1] = "slice" -> <<"[", "]">>
            [] t[1] = "map" -> <<"m","a","p","[","i","n","t","]">>)
         \o TypeString(Elem(t))

\* strings.HasPrefix
HasPrefix(s, prefix) ==
    Len(s) >= Len(prefix) /\ SubSeq(s, 1, Len(prefix)) = prefix

DestPrefix == <<"*", "[", "]", "*">>

\* the body of Scan's loop over dest for an argument of type t: the struct
\* type t.Elem().Elem().Elem(), then the test of the shape
destType(t) ==
    IF ~HasElem(t) \/ ~HasElem(Elem(t)) \/ ~HasElem(Elem(Elem(t)))
    THEN [err |-> Panic, typ |-> NilType]
    ELSE LET e3 == Elem(Elem(Elem(t)))
         IN  IF ~HasPrefix(TypeString(t), DestPrefix) \/ KindOf(e3) # "struct"
             THEN [err |-> ErrBadDest, typ |-> NilType]
             ELSE [err |-> ErrNil, typ |-> e3[1]]

\* Scan's loop over dest from argument k on: the struct types, or the error
\* of the first argument that has one
RECURSIVE prepare(_, _, _)
prepare(as, k, typ) ==
    IF k > Len(as) THEN [err |-> ErrNil, typ |-> typ]
    ELSE LET r == destType(as[k])
         IN  IF r.err # ErrNil THEN [err |-> r.err, typ |-> <<>>]
             ELSE prepare(as, k + 1, Append(typ, r.typ))

\* ref[i].name of a column that belongs to no destination
NoDest == -1

\* colname that keeps the letter case of the column
colnameKeepCase(c) ==
    LET dot == LastIndex(c, Dot)
    IN  IF dot # -1 THEN SliceFrom(c, dot + 1) ELSE c

\* the column name without its table name, in lowercase
colname(c) ==
    LET dot == LastIndex(c, Dot)
    IN  IF dot # -1 THEN ToLower(SliceFrom(c, dot + 1)) ELSE ToLower(c)

\* the lookup of scanField: the key of column c in the struct named s
scankey(s, c) == <<"1">> \o Dot \o s \o Dot \o c

\* successor that stays at the current destination
successorStay(jj) == jj

\* the next destination scanField looks at after destination jj
successor(jj) == jj + 1

\* skipped that binds the empty column to the struct it ends
skippedBound(rf, ii, jj) == [rf EXCEPT ![ii + 1] = entryT(jj, 0, NilType)]

\* ref after the pass over the empty column i (0-based): its entry keeps
\* the zero value, whose name is nil
skipped(rf, ii, jj) == rf

\* one pass of scanField's loop over column i (0-based), current struct j
scanFieldIter(m, cols, tts, ii, jj, st, rf) ==
    IF cols[ii + 1] = <<>>
    THEN \* delimiter of tables: move to the next struct
         IF successor(jj) = Len(tts)
         THEN [col |-> cols, i |-> ii, j |-> successor(jj), stru |-> st,
               ref |-> skipped(rf, ii, jj), err |-> ErrNil]
         ELSE [col |-> cols, i |-> ii + 1, j |-> successor(jj),
               stru |-> Name(tts[successor(jj) + 1]),
               ref |-> skipped(rf, ii, jj), err |-> ErrNil]
    ELSE
    LET c     == colname(cols[ii + 1])
        cols1 == [cols EXCEPT ![ii + 1] = c]
        bind(jx, v) == [rf EXCEPT ![ii + 1] =
                           entryT(jx, v.offset, v.typ)]
    IN  IF Has(m, scankey(st, c))
        THEN [col |-> cols1, i |-> ii + 1, j |-> jj, stru |-> st,
              ref |-> bind(jj, m[scankey(st, c)]), err |-> ErrNil]
        ELSE IF successor(jj) = Len(tts)
        THEN [col |-> cols1, i |-> ii, j |-> successor(jj), stru |-> st,
              ref |-> rf, err |-> ErrNoMapping]
        ELSE LET st1 == Name(tts[successor(jj) + 1])
             IN  IF Has(m, scankey(st1, c))
                 THEN [col |-> cols1, i |-> ii + 1, j |-> successor(jj),
                       stru |-> st1,
                       ref |-> bind(successor(jj), m[scankey(st1, c)]),
                       err |-> ErrNil]
                 ELSE [col |-> cols1, i |-> ii, j |-> successor(jj),
                       stru |-> st1, ref |-> rf, err |-> ErrNoMapping]

\* the pointer targets of one rows.Scan: the value of every column before
\* column upto (1-based) is stored in the field its ref names
RECURSIVE rowsScan(_, _, _, _, _)
rowsScan(tmp, rf, v, c, upto) ==
    IF c >= upto THEN tmp
    ELSE IF rf[c].name = NoDest
         THEN rowsScan(tmp, rf, v, c + 1, upto)
         ELSE rowsScan(
                [tmp EXCEPT ![rf[c].name + 1] =
                    Put(tmp[rf[c].name + 1], rf[c].offset, <<v, c>>)],
                rf, v, c + 1, upto)

\* appendRow that skips the destinations no column is bound to
appendRowBound(acc, tmp) ==
    [d \in DOMAIN acc |->
        IF \E c \in DOMAIN ref : ref[c].name = d - 1
        THEN AppendSlice(acc[d], tmp[d]) ELSE acc[d]]

\* rsa after a row: a new struct appended to every destination
appendRow(acc, tmp) ==
    [d \in DOMAIN acc |-> AppendSlice(acc[d], tmp[d])]

\* writeback that appends the results to what dest holds
writebackAppend(d, acc) ==
    [k \in DOMAIN d |-> [isnil |-> FALSE, e |-> d[k].e \o acc[k].e]]

\* what Scan writes to dest when it returns nil
writeback(d, acc) == acc

\* onerror that hands out the rows received so far
onerrorPartial(d, acc) == acc

\* what Scan leaves in dest when it returns an error
onerror(d, acc) == d

(***************************************************************************)
(* Buildstr.  The value of a struct is a function from the offsets of its  *)
(* fields to their values: an integer, a boolean, a string (sequence of    *)
(* characters) or a slice of strings; a pointer is a record of its         *)
(* nil-ness and the struct it points to.                                   *)
(***************************************************************************)
\* the type implements driver.Valuer
HasValuer(t) == t = "strslice2"

\* strings.Join
RECURSIVE Join(_, _)
Join(ss, sep) ==
    IF ss = <<>> THEN <<>>
    ELSE IF Len(ss) = 1 THEN ss[1]
    ELSE ss[1] \o sep \o Join(Tail(ss), sep)

\* Value() of the slice type that implements driver.Valuer
Value(v) == Join(v, <<",">>)

\* the decimal digits of a natural number
RECURSIVE Digits(_)
Digits(n) ==
    LET d == <<"0","1","2","3","4","5","6","7","8","9">>[(n % 10) + 1]
    IN  IF n < 10 THEN <<d>> ELSE Append(Digits(n \div 10), d)

\* fmt's %d
FormatInt(n) == IF n < 0 THEN <<"-">> \o Digits(-n) ELSE Digits(n)

\* fmt's %t
FormatBool(b) == IF b THEN <<"t","r","u","e">> ELSE <<"f","a","l","s","e">>

\* the body of a quoted string: quote and backslash are escaped
RECURSIVE Escape(_)
Escape(str) ==
    IF str = <<>> THEN <<>>
    ELSE (IF str[1] \in {"\"", "\\"} THEN <<"\\", str[1]>> ELSE <<str[1]>>)
         \o Escape(Tail(str))

\* fmt's %q of a string, and %#v of a string
Quote(str) == <<"\"">> \o Escape(str) \o <<"\"">>

\* buildstr that leaves out a value it cannot render
buildstrSkip(b, str, typ, val) ==
    IF HasValuer(typ)
    THEN [b |-> b \o str \o Quote(Value(val)), err |-> ErrNil]
    ELSE CASE Kind(typ) = "bool" ->
                [b |-> b \o str \o FormatBool(val), err |-> ErrNil]
           [] Kind(typ) = "int" ->
                [b |-> b \o str \o FormatInt(val), err |-> ErrNil]
           [] Kind(typ) = "string" ->
                [b |-> b \o str \o Quote(val), err |-> ErrNil]
           [] OTHER -> [b |-> b, err |-> ErrNil]

\* buildstr: b after "str" and the value val of type typ are written to it
buildstr(b, str, typ, val) ==
    IF HasValuer(typ)
    THEN [b |-> b \o str \o Quote(Value(val)), err |-> ErrNil]
    ELSE CASE Kind(typ) = "bool" ->
                [b |-> b \o str \o FormatBool(val), err |-> ErrNil]
           [] Kind(typ) = "int" ->
                [b |-> b \o str \o FormatInt(val), err |-> ErrNil]
           [] Kind(typ) = "string" ->
                [b |-> b \o str \o Quote(val), err |-> ErrNil]
           [] OTHER -> [b |-> b, err |-> ErrNoValue]

\* separator that is also written before the first item
sepAlways(k, str) == str

\* the separator written before item k (1-based) of a loop
sep(k, str) == IF k > 1 THEN str ELSE <<>>

\* an error return that hands out what the builder holds
failedPartial(b, e) == [out |-> b, err |-> e]

\* the return of an error: the empty string and the error
failed(b, e) == [out |-> <<>>, err |-> e]

\* the field list that is always the list of all mapped fields
fieldlistAll(m, st, field) == m[st].name

\* the fields to build: the given ones, by default all mapped fields
fieldlist(m, st, field) == IF Len(field) = 0 THEN m[st].name ELSE field

\* valuebuild's loop over the fields that writes the column names
RECURSIVE columns(_, _, _, _, _)
columns(m, st, fs, k, b) ==
    IF k > Len(fs) THEN [b |-> b, err |-> ErrNil]
    ELSE LET b1 == b \o sep(k, <<",">>)
         IN  IF Has(m, key0(st, fs[k]))
             THEN columns(m, st, fs, k + 1, b1 \o m[key0(st, fs[k])].name)
             ELSE [b |-> b1, err |-> ErrNoField]

\* valuebuild's loop over the fields of one element
RECURSIVE tuple(_, _, _, _, _, _)
tuple(m, st, fs, x, k, b) ==
    IF k > Len(fs) THEN [b |-> b, err |-> ErrNil]
    ELSE LET e == m[key0(st, fs[k])]
             r == buildstr(b \o sep(k, <<",">>), <<>>, e.typ, x[e.offset])
         IN  IF r.err # ErrNil THEN r
             ELSE tuple(m, st, fs, x, k + 1, r.b)

\* valuebuild's loop over the elements of the slice
RECURSIVE tuples(_, _, _, _, _, _)
tuples(m, st, fs, es, n, b) ==
    IF n > Len(es) THEN [b |-> b, err |-> ErrNil]
    ELSE IF es[n].isnil THEN [b |-> b, err |-> ErrNilElem]
    ELSE LET r == tuple(m, st, fs, es[n].v, 1, b \o sep(n, <<")", ",", "(">>))
         IN  IF r.err # ErrNil THEN r
             ELSE tuples(m, st, fs, es, n + 1, r.b)

\* valuebuild for data of type []*t with the elements es
valuebuild(m, t, es, field) ==
    LET st == Name(t)
    IN  IF ~Has(m, st) THEN failed(<<>>, ErrNoStruct)
        ELSE LET fs == fieldlist(m, st, field)
                 h  == columns(m, st, fs, 1, <<"(">>)
             IN  IF h.err # ErrNil THEN failed(h.b, h.err)
                 ELSE LET r == tuples(m, st, fs, es, 1,
                                  h.b \o <<")"," ","V","A","L","U","E","S"," ","(">>)
                      IN  IF r.err # ErrNil THEN failed(r.b, r.err)
                          ELSE [out |-> r.b \o <<")">>, err |-> ErrNil]

\* setbuild's loop over the fields; reading a field through a nil pointer
\* is a run-time panic
RECURSIVE clauses(_, _, _, _, _, _)
clauses(m, st, fs, p, k, b) ==
    IF k > Len(fs) THEN [b |-> b, err |-> ErrNil]
    ELSE LET b1 == b \o sep(k, <<",">>)
         IN  IF ~Has(m, key0(st, fs[k])) THEN [b |-> b1, err |-> ErrNoField]
             ELSE IF p.isnil THEN [b |-> b1, err |-> Panic]
             ELSE LET e == m[key0(st, fs[k])]
                      r == buildstr(b1, e.name \o <<"=">>, e.typ, p.v[e.offset])
                  IN  IF r.err # ErrNil THEN r
                      ELSE clauses(m, st, fs, p, k + 1, r.b)

\* setbuild for data of type *t with the pointer p
setbuild(m, t, p, field) ==
    LET st == Name(t)
    IN  IF ~Has(m, st) THEN failed(<<>>, ErrNoStruct)
        ELSE LET r == clauses(m, st, fieldlist(m, st, field), p, 1,
                              <<"S","E","T"," ">>)
             IN  IF r.err # ErrNil THEN failed(r.b, r.err)
                 ELSE [out |-> r.b, err |-> ErrNil]

\* Buildstr for data of type typ holding the pointers es (the elements of
\* a slice, or the pointer itself)
BuildstrOp(m, typ, es, field) ==
    IF typ = <<"nil">> THEN [out |-> <<>>, err |-> Panic]
    ELSE IF /\ KindOf(typ) = "slice" /\ KindOf(Elem(typ)) = "ptr"
            /\ KindOf(Elem(Elem(typ))) = "struct"
    THEN IF Len(es) = 0 THEN [out |-> <<>>, err |-> ErrDataNil]
         ELSE valuebuild(m, typ[3], es, field)
    ELSE IF KindOf(typ) = "ptr" /\ KindOf(Elem(typ)) = "struct"
    THEN setbuild(m, typ[2], es[1], field)
    ELSE [out |-> <<>>, err |-> ErrBadData]

(***************************************************************************)
(* The inputs of the calls.                                                *)
(***************************************************************************)
fMap    == <<"s",".","M","a","p">>
fInit0  == <<"m",".","i","n","i","t",".","0">>
fVarInit == <<"m",".","i","n","i","t">>
fClosure == <<"m",".","i","n","i","t",".","0",".","f","u","n","c","1">>
fMain   == <<"m",".","m","a","i","n">>
fReg    == <<"m",".","r","e","g">>

\* the call stacks a call can have while the init() functions run
InitStacks ==
    { <<fMap, fInit0>>,
      <<fMap, fReg, fInit0>>,
      <<fMap, fVarInit>>,
      <<fMap, fReg, fReg, fReg, fReg, fReg, fReg, fReg, fReg, fReg, fInit0>> }

\* the call stacks a call can have once main() runs: from main, and from a
\* closure of init() that main calls
MainStacks ==
    { <<fMap, fMain>>,
      <<fMap, fClosure, fMain>> }

Stacks(ph) == IF ph = "init" THEN InitStacks ELSE MainStacks

StruArgLists ==
    { <<"Item">>, <<"O">>, <<"S">>, <<"E">>, <<"F">>, <<"G">>, <<"H">>, <<"K">>,
      <<"int">>, <<"Anon">>,
      <<"Item", "Item">>, <<"G", "Item">>, <<"Item", "E">> }

TypePairs ==
    { <<"[]string", "strslice">>, <<"strslice", "strslice2">>,
      <<"int", "strslice">> }

ColLists ==
    { << <<"a">>, <<"b">>, <<>>, <<"a">> >>,
      << <<"a">>, <<"b">>, <<"a">> >>,
      << <<"a">>, <<"c">> >>,
      << <<"i","d">>, <<"n","a","m","e">> >>,
      << <<"t",".","A">>, <<"B">> >>,
      << <<"a">>, <<>>, <<>>, <<"c">> >>,
      << <<"a">>, <<>> >>,
      << <<"c">>, <<"a">> >>,
      << <<"t",".">> >> }

DestLists ==
    { <<>>, <<"P">>, <<"Item">>, <<"O">>, <<"P", "Q">>, <<"P", "R">>,
      <<"R", "Q">>, <<"P", "Q", "R">> }

\* dest arguments that are not of the form *[]*struct
BadDests ==
    { <<"int">>, <<"nil">>,
      <<"ptr", "P">>,
      <<"slice", "ptr", "P">>,
      <<"ptr", "slice", "P">>,
      <<"ptr", "slice", "ptr", "int">>,
      <<"ptr", "slice", "ptr", "ptr", "P">>,
      <<"ptr", "ptr", "slice", "ptr", "P">>,
      <<"ptr", "map", "ptr", "P">> }

\* those of them that also follow a well-formed argument
BadSeconds ==
    { <<"ptr", "slice", "P">>, <<"ptr", "slice", "ptr", "int">> }

\* the dest arguments of a call: all well formed, or with one that is not
DestArgLists ==
    { [d \in DOMAIN l |-> PtrSliceOfPtr(l[d])] : l \in DestLists }
    \cup { <<b>> : b \in BadDests }
    \cup { <<PtrSliceOfPtr("P"), b>> : b \in BadSeconds }

\* a struct the caller's slice holds before the call
Old(t) == [o \in Slots(t, 0) |-> <<0, 1>>]

\* the caller's slices before the call: all nil, or each holding one struct
DestBefore(tts) ==
    { [d \in DOMAIN tts |-> NilSlice],
      [d \in DOMAIN tts |-> AppendSlice(NilSlice, Old(tts[d]))] }

(***************************************************************************)
(* The state and the actions.                                              *)
(***************************************************************************)
NoCall == [op |-> "none", args |-> <<>>, err |-> ErrNil]

ScanIdle ==
    /\ pc = "idle" /\ col = <<>> /\ ts = <<>> /\ ref = <<>>
    /\ i = 0 /\ j = 0 /\ stru = <<>> /\ rsa = <<>>
    /\ dest = <<>> /\ dest0 = <<>> /\ dargs = <<>>
    /\ rows = [Columns |-> <<>>, got |-> <<>>]
    /\ err = ErrNil

\* no call of Buildstr is under way
NoData == [typ |-> <<>>, e |-> <<>>]

BuildIdle == bdata = NoData /\ bfield = <<>> /\ bsql = <<>>

Init ==
    /\ mapping = EmptyMap
    /\ typemap = EmptyMap
    /\ phase = "init"
    /\ last = NoCall
    /\ ScanIdle
    /\ BuildIdle

\* a run-time panic ends the program
after(ph, e) == IF e = Panic THEN "crashed" ELSE ph

MapStruct ==
    /\ phase \in {"init", "main"}
    /\ \E stack \in Stacks(phase), args \in StruArgLists :
          LET r == MapStructOp(mapping, typemap, stack, args)
          IN  /\ mapping' = r.m
              /\ last' = [op |-> "MapStruct", args |-> args, err |-> r.err]
              /\ phase' = after(phase, r.err)
    /\ UNCHANGED <<typemap, scanvars, buildvars>>

MapType ==
    /\ phase \in {"init", "main"}
    /\ \E stack \in Stacks(phase), p \in TypePairs :
          LET r == MapTypeOp(mapping, typemap, stack, p[1], p[2])
          IN  /\ mapping' = r.m
              /\ typemap' = r.tm
              /\ last' = [op |-> "MapType", args |-> p, err |-> r.err]
    /\ UNCHANGED <<phase, scanvars, buildvars>>

\* the init() functions have returned and main() starts
EndInit ==
    /\ phase = "init"
    /\ phase' = "main"
    /\ last' = [op |-> "main", args |-> <<>>, err |-> ErrNil]
    /\ UNCHANGED <<mapping, typemap, scanvars, buildvars>>

Next == MapStruct \/ MapType \/ EndInit

Spec == Init /\ [][Next]_vars

(***************************************************************************)
(* Scan, after a startup that mapped P, Q, R and Item.                     *)
(***************************************************************************)
Startup == <<"P", "Q", "R", "Item">>

InitScan ==
    /\ mapping = MapStructOp(EmptyMap, EmptyMap, <<fMap, fInit0>>, Startup).m
    /\ typemap = EmptyMap
    /\ phase = "main"
    /\ last = NoCall
    /\ ScanIdle
    /\ BuildIdle

\* Scan is called: the arguments are checked and scanField starts
ScanCall ==
    /\ pc = "idle"
    /\ \E cols \in ColLists, as \in DestArgLists :
       LET r   == prepare(as, 1, <<>>)
           tts == r.typ
       IN
       \E before \in IF r.err = ErrNil THEN DestBefore(tts)
                      ELSE {[d \in DOMAIN as |-> NilSlice]} :
          /\ rows' = [Columns |-> cols, got |-> <<>>]
          /\ dargs' = as
          /\ dest' = before
          /\ dest0' = before
          /\ ts' = tts
          /\ IF Len(as) = 0
             THEN /\ pc' = "idle" /\ err' = ErrNoDest
                  /\ col' = <<>> /\ ref' = <<>> /\ stru' = <<>> /\ rsa' = <<>>
             ELSE IF r.err # ErrNil
             THEN /\ pc' = IF r.err = Panic THEN "crashed" ELSE "idle"
                  /\ err' = r.err
                  /\ col' = <<>> /\ ref' = <<>> /\ stru' = <<>> /\ rsa' = <<>>
             ELSE /\ pc' = "scanField" /\ err' = ErrNil
                  /\ col' = cols
                  /\ ref' = [c \in DOMAIN cols |-> entryT(NoDest, 0, NilType)]
                  /\ stru' = Name(tts[1])
                  /\ rsa' = [d \in DOMAIN tts |-> MakeSlice]
          /\ i' = 0 /\ j' = 0
    /\ UNCHANGED <<regvars, buildvars>>

\* one pass of the loop of scanField
scanFieldStep ==
    /\ pc = "scanField"
    /\ i < Len(col) /\ j < Len(ts)
    /\ LET r == scanFieldIter(mapping, col, ts, i, j, stru, ref)
       IN  /\ col' = r.col /\ i' = r.i /\ j' = r.j /\ stru' = r.stru
           /\ ref' = r.ref /\ err' = r.err
           /\ pc' = IF r.err = ErrNil THEN "scanField" ELSE "idle"
    /\ UNCHANGED <<ts, rsa, dest, dest0, dargs, rows, regvars, buildvars>>

\* the loop of scanField has ended
scanFieldReturn ==
    /\ pc = "scanField"
    /\ ~(i < Len(col) /\ j < Len(ts))
    /\ IF i < Len(col)
       THEN /\ pc' = "idle" /\ err' = ErrNoMapping
       ELSE /\ pc' = "rows" /\ err' = ErrNil
    /\ UNCHANGED <<col, ts, ref, i, j, stru, rsa, dest, dest0, dargs, rows, regvars, buildvars>>

\* rows.Next() delivers row v and rows.Scan stores it
ScanRow ==
    /\ pc = "rows"
    /\ Len(rows.got) < MaxRows
    /\ \E v \in 1..MaxVal :
          LET tmp == [d \in DOMAIN ts |-> New(ts[d])]
          IN  /\ rsa' = appendRow(rsa, rowsScan(tmp, ref, v, 1, Len(ref) + 1))
              /\ rows' = [rows EXCEPT !.got = Append(@, v)]
    /\ UNCHANGED <<pc, col, ts, ref, i, j, stru, dest, dest0, dargs, err, regvars, buildvars>>

\* rows.Next() delivers row v and rows.Scan fails at column k
ScanRowFail ==
    /\ pc = "rows"
    /\ Len(rows.got) < MaxRows
    /\ \E v \in 1..MaxVal, k \in DOMAIN ref :
          LET tmp == [d \in DOMAIN ts |-> New(ts[d])]
          IN  /\ rsa' = appendRow(rsa, rowsScan(tmp, ref, v, 1, k))
              /\ rows' = [rows EXCEPT !.got = Append(@, v)]
    /\ dest' = onerror(dest, rsa')
    /\ pc' = "idle"
    /\ err' = ErrRowScan
    /\ UNCHANGED <<col, ts, ref, i, j, stru, dest0, dargs, regvars, buildvars>>

\* rows.Next() is false and rows.Err() is nil: the results are written
ScanFinish ==
    /\ pc = "rows"
    /\ dest' = writeback(dest, rsa)
    /\ pc' = "idle"
    /\ err' = ErrNil
    /\ UNCHANGED <<col, ts, ref, i, j, stru, rsa, dest0, dargs, rows, regvars, buildvars>>

\* rows.Next() is false because the cursor failed: rows.Err() is not nil
ScanRowsErr ==
    /\ pc = "rows"
    /\ dest' = onerror(dest, rsa)
    /\ pc' = "idle"
    /\ err' = ErrRows
    /\ UNCHANGED <<col, ts, ref, i, j, stru, rsa, dest0, dargs, rows, regvars, buildvars>>

NextScan ==
    \/ ScanCall
    \/ scanFieldStep
    \/ scanFieldReturn
    \/ ScanRow
    \/ ScanRowFail
    \/ ScanFinish
    \/ ScanRowsErr

SpecScan == InitScan /\ [][NextScan]_vars

(***************************************************************************)
(* Buildstr, after a startup that mapped Item, O, N and S, with or without *)
(* a type mapping of []string to a type that implements driver.Valuer.     *)
(***************************************************************************)
BuildStartup == <<"Item", "O", "N", "S">>

StartupTypes == { <<>>, <<"[]string", "strslice2">> }

InitBuild ==
    /\ \E tp \in StartupTypes :
          LET tm == IF tp = <<>> THEN EmptyMap
                    ELSE MapTypeOp(EmptyMap, EmptyMap, <<fMap, fInit0>>,
                                   tp[1], tp[2]).tm
          IN  /\ typemap = tm
              /\ mapping = MapStructOp(EmptyMap, tm, <<fMap, fInit0>>,
                                       BuildStartup).m
    /\ phase = "main"
    /\ last = NoCall
    /\ ScanIdle
    /\ BuildIdle

\* the natural type of the field at offset o of a struct of type t at b
RECURSIVE SlotTypes(_, _)
SlotTypes(t, b) ==
    UNION { LET tt == Field(t, k)
            IN  IF Kind(tt.Type) = "struct" /\ tt.Type # "time.Time"
                THEN SlotTypes(tt.Type, b + tt.Offset)
                ELSE {<<b + tt.Offset, tt.Type>>}
            : k \in 1..NumField(t) }

\* the values a program stores in its fields: the k-th value of each type
Variants == 1..4

ValOf(typ, k) ==
    CASE typ = "int" -> <<1, 2, 5, -15>>[k]
      [] typ = "string" -> << <<"a">>, <<"b">>, <<"x">>, <<"x", "\"", "y">> >>[k]
      [] typ = "bool" -> k = 1
      [] Kind(typ) = "slice" ->
            << <<>>, << <<"p">> >>, << <<"p">>, <<"q", "r">> >>, <<>> >>[k]
      [] OTHER -> k

\* a struct of type t whose fields hold their k-th values
Object(t, k) ==
    [o \in Slots(t, 0) |->
        ValOf((CHOOSE x \in SlotTypes(t, 0) : x[1] = o)[2], k)]

NilPtr == [isnil |-> TRUE, v |-> <<>>]
PtrTo(x) == [isnil |-> FALSE, v |-> x]

\* the pointers a program holds to structs of type t
Ptrs(t) == {NilPtr} \cup {PtrTo(Object(t, k)) : k \in Variants}

\* the slices of at most n pointers to structs of type t
RECURSIVE PtrSlices(_, _)
PtrSlices(t, n) ==
    IF n = 0 THEN {<<>>}
    ELSE LET shorter == PtrSlices(t, n - 1)
         IN  shorter \cup {Append(x, p) : x \in shorter, p \in Ptrs(t)}

\* the struct types a program builds strings of; R is not mapped
DataTypes == {"Item", "O", "N", "S", "R"}

\* the data arguments of Buildstr
DataArgs ==
    UNION { {[typ |-> <<"slice", "ptr", t>>, e |-> x] : x \in PtrSlices(t, MaxElems)}
            \cup {[typ |-> <<"ptr", t>>, e |-> <<p>>] : p \in Ptrs(t)}
            : t \in DataTypes }
    \cup { [typ |-> <<"nil">>, e |-> <<>>],
           [typ |-> <<"int">>, e |-> <<>>],
           [typ |-> <<"Item">>, e |-> <<>>],
           [typ |-> <<"slice", "Item">>, e |-> <<>>],
           [typ |-> <<"ptr", "slice", "ptr", "Item">>, e |-> <<>>] }

\* the field arguments of Buildstr
FieldArgs ==
    { <<>>,
      << <<"N","a","m","e">> >>,
      << <<"N","a","m","e">>, <<"I","D">> >>,
      << <<"I","D">>, <<"n","a","m","e">> >>,
      << <<"X">>, <<"I","n",".","D","e",".","V">> >>,
      << <<"I","n",".","Y">> >>,
      << <<"X">>, <<"I","n",".","Y">>, <<"X">> >>,
      << <<"X">>, <<"I","n",".","Z">> >>,
      << <<"X">>, <<"W">>, <<"N","o","p","e">> >>,
      << <<"D","e",".","V">>, <<"O","k">> >>,
      << <<"V">>, <<"I","n">> >>,
      << <<"C">> >> }

\* Buildstr(data, field...) is called and returns
Buildstr ==
    /\ BuildIdle
    /\ \E d \in DataArgs, f \in FieldArgs :
          LET r == BuildstrOp(mapping, d.typ, d.e, f)
          IN  /\ bdata' = d
              /\ bfield' = f
              /\ bsql' = r.out
              /\ last' = [op |-> "Buildstr", args |-> f, err |-> r.err]
              /\ phase' = after(phase, r.err)
    /\ UNCHANGED <<mapping, typemap, scanvars>>

\* the caller is done with the string
BuildstrUsed ==
    /\ last.op = "Buildstr" /\ phase = "main"
    /\ bdata' = NoData /\ bfield' = <<>> /\ bsql' = <<>>
    /\ last' = NoCall
    /\ UNCHANGED <<mapping, typemap, phase, scanvars>>

NextBuild == Buildstr \/ BuildstrUsed

SpecBuild == InitBuild /\ [][NextBuild]_vars

(***************************************************************************)
(* What the claims say about the struct types: the leaf fields of a type   *)
(* with their dotted paths, columns, offsets from the base of the          *)
(* outermost struct and natural types, read off the type declarations.     *)
(* A leaf is a field that stands for a column: a field that is no struct,  *)
(* a time.Time, or a struct field whose tag names its column.              *)
(***************************************************************************)
\* the tokens of a tag whose key is the recognized key
KeyTokens(tag) ==
    LET toks == Fields(tag)
    IN  {k \in DOMAIN toks :
            /\ Len(toks[k]) >= Len(Key)
            /\ SubSeq(toks[k], 1, Len(Key)) = Key
            /\ (Len(toks[k]) = Len(Key)
                \/ SubSeq(toks[k], Len(Key) + 1, Len(Key) + Len(Op)) = Op)}

\* the column a field's tag names: the value of the first key token (what
\* follows the separator, up to the next one), else the lowercase field name
SpecCol(tt) ==
    LET toks == Fields(tt.tag)
        ks   == KeyTokens(tt.tag)
    IN  IF ks = {} THEN ToLower(tt.Name)
        ELSE LET k    == CHOOSE x \in ks : \A y \in ks : x <= y
                 rest == SubSeq(toks[k], Len(Key) + Len(Op) + 1, Len(toks[k]))
                 stop == Index(rest, Op)
             IN  IF stop = -1 THEN rest ELSE SliceTo(rest, stop)

JoinPath(prefix, name) == IF prefix = <<>> THEN name ELSE prefix \o Dot \o name

RECURSIVE SpecLeavesFrom(_, _, _, _)
SpecLeavesFrom(t, base, prefix, k) ==
    IF k > NumField(t) THEN <<>>
    ELSE LET tt == Field(t, k)
             here ==
               IF ~IsUpper(tt.Name[1]) THEN <<>>
               ELSE IF /\ Kind(tt.Type) = "struct" /\ tt.Type # "time.Time"
                       /\ KeyTokens(tt.tag) = {}
               THEN SpecLeavesFrom(tt.Type, base + tt.Offset,
                                   JoinPath(prefix, tt.Name), 1)
               ELSE << [path |-> JoinPath(prefix, tt.Name), col |-> SpecCol(tt),
                        offset |-> base + tt.Offset, nat |-> tt.Type] >>
         IN  here \o SpecLeavesFrom(t, base, prefix, k + 1)

SpecLeaves(t) == SpecLeavesFrom(t, 0, <<>>, 1)

\* the leaf of type t with the dotted field path
LeafAt(t, path) ==
    LET ls == SpecLeaves(t)
    IN  ls[CHOOSE k \in DOMAIN ls : ls[k].path = path]

IsLeaf(t, path) == \E k \in DOMAIN SpecLeaves(t) : SpecLeaves(t)[k].path = path

\* the default field order of type t: its leaves, depth first
DefaultPaths(t) == [k \in DOMAIN SpecLeaves(t) |-> SpecLeaves(t)[k].path]

\* the registry keys the package documents: "1.struct.column", "0.struct.field"
ColumnKey(t, c) == <<"1", ".">> \o Name(t) \o <<".">> \o c
FieldKey(t, path) == <<"0", ".">> \o Name(t) \o <<".">> \o path

\* the name of a result column as Scan matches it: without "table.", lowercase
RECURSIVE AfterLastDot(_)
AfterLastDot(c) ==
    IF c = <<>> THEN <<>>
    ELSE IF c[Len(c)] = "." THEN <<>>
    ELSE Append(AfterLastDot(SubSeq(c, 1, Len(c) - 1)), c[Len(c)])

Matched(c) == ToLower(AfterLastDot(c))

\* destination d (0-based) maps column name c in the registry
Maps(d, c) == d < Len(ts) /\ ColumnKey(ts[d + 1], c) \in DOMAIN mapping

\* scanField is about to look at column i
AtColumn == pc = "scanField" /\ i < Len(col) /\ j < Len(ts)

\* Scan has returned nil
ScanDone == pc = "idle" /\ err = ErrNil /\ Len(ts) > 0

(***************************************************************************)
(* C1: an empty-named column advances the current destination by exactly   *)
(* one and binds to no field, and the column after it is resolved from     *)
(* the new destination: with destinations P (a, b) and Q (pad, a) and      *)
(* columns [a, b, "", a] the binding is P.A, P.B, none, Q.C.               *)
(***************************************************************************)
C1_Columns == << <<"a">>, <<"b">>, <<>>, <<"a">> >>

C1_Example ==
    (pc = "rows" /\ rows.Columns = C1_Columns /\ ts = <<"P", "Q">>)
    => /\ ref[1] = entryT(0, 0, "int")
       /\ ref[2] = entryT(0, 8, "string")
       /\ ref[3].name = NoDest
       /\ ref[4] = entryT(1, 8, "int")

C1_Step ==
    /\ (AtColumn /\ col[i + 1] = <<>>)
          => /\ j' = j + 1
             /\ ref' = ref /\ ref[i + 1].name = NoDest
             /\ err' = ErrNil /\ pc' = "scanField"
             /\ (j + 1 < Len(ts) => i' = i + 1)
    /\ (AtColumn /\ i > 0 /\ rows.Columns[i] = <<>> /\ col[i + 1] # <<>>
          /\ Maps(j, Matched(col[i + 1])))
          => /\ ref'[i + 1].name = j
             /\ ref'[i + 1].offset =
                   mapping[ColumnKey(ts[j + 1], Matched(col[i + 1]))].offset

C1_Delimiter == [][C1_Step /\ C1_Example']_vars

C1_Witness ==
    /\ pc = "rows" /\ rows.Columns = C1_Columns /\ ts = <<"P", "Q">>
    /\ ref[4].name = 1

(***************************************************************************)
(* C2: a non-empty column binds to the current destination when that maps  *)
(* its lowercase name without the table qualifier, else to the next        *)
(* destination when that maps it, else Scan fails with "has no mapping";   *)
(* no destination further ahead is looked at.                              *)
(***************************************************************************)
C2_Step ==
    (AtColumn /\ col[i + 1] # <<>>) =>
        LET c == Matched(col[i + 1])
        IN  IF Maps(j, c)
            THEN /\ err' = ErrNil /\ j' = j /\ i' = i + 1
                 /\ ref'[i + 1].name = j
                 /\ ref'[i + 1].offset = mapping[ColumnKey(ts[j + 1], c)].offset
                 /\ ref'[i + 1].typ = mapping[ColumnKey(ts[j + 1], c)].typ
            ELSE IF Maps(j + 1, c)
            THEN /\ err' = ErrNil /\ j' = j + 1 /\ i' = i + 1
                 /\ ref'[i + 1].name = j + 1
                 /\ ref'[i + 1].offset = mapping[ColumnKey(ts[j + 2], c)].offset
                 /\ ref'[i + 1].typ = mapping[ColumnKey(ts[j + 2], c)].typ
            ELSE /\ err' = ErrNoMapping /\ pc' = "idle"

C2_CurrentThenNext == [][C2_Step]_vars

\* column c is refused although the destination after the next one maps it
C2_Witness ==
    /\ pc = "idle" /\ err = ErrNoMapping
    /\ ts = <<"P", "Q", "R">> /\ i = 1
    /\ ColumnKey("R", col[2]) \in DOMAIN mapping

(***************************************************************************)
(* C3: when Scan returns nil every destination holds one struct per row    *)
(* of the cursor, in the cursor's order; the field a column is bound to    *)
(* holds that row's value of the column, every other field is zero; what   *)
(* the destination held before is replaced.                                *)
(***************************************************************************)
\* the columns (1-based) bound to the field at offset o of destination d
BoundTo(d, o) ==
    {c \in DOMAIN ref : ref[c].name = d - 1 /\ ref[c].offset = o}

\* the leaf of type t that the column name c belongs to
LeafOf(t, c) ==
    LET ls == SpecLeaves(t)
    IN  ls[CHOOSE k \in DOMAIN ls : ls[k].col = c]

C3_Records ==
    ScanDone =>
      \A d \in DOMAIN ts :
        /\ ~dest[d].isnil
        /\ Len(dest[d].e) = Len(rows.got)
        /\ \A r \in DOMAIN dest[d].e :
             /\ DOMAIN dest[d].e[r] = Slots(ts[d], 0)
             /\ \A c \in DOMAIN ref :
                  (ref[c].name = d - 1 /\ \A c2 \in BoundTo(d, ref[c].offset) : c2 <= c)
                  => dest[d].e[r][LeafOf(ts[d], Matched(rows.Columns[c])).offset]
                        = <<rows.got[r], c>>
             /\ \A o \in Slots(ts[d], 0) :
                  BoundTo(d, o) = {} => dest[d].e[r][o] = Zero

C3_Witness ==
    /\ ScanDone /\ ts = <<"Item">> /\ Len(rows.got) = 2
    /\ rows.got[1] # rows.got[2]
    /\ dest0[1].e # <<>>
    /\ dest[1].e[2][8] = <<rows.got[2], 2>>

(***************************************************************************)
(* C4: when Scan returns an error of rows.Scan or of rows.Err, every       *)
(* destination is what it was before the call.                             *)
(***************************************************************************)
C4_Untouched ==
    (pc = "idle" /\ err \in {ErrRowScan, ErrRows}) => dest = dest0

C4_Witness ==
    /\ pc = "idle" /\ err = ErrRowScan
    /\ Len(rows.got) = 2
    /\ \E d \in DOMAIN rsa : Len(rsa[d].e) = 2 /\ rsa[d].e[1] # New(ts[d])
    /\ dest0[1].e # <<>>

(***************************************************************************)
(* The registration claims.                                                *)
(***************************************************************************)
\* the struct types a program passes to MapStruct
TopTypes == {"P", "Q", "R", "Item", "O", "S", "E", "F", "G", "H", "K"}

\* the struct is marked as mapped
Registered(t) == Name(t) \in DOMAIN mapping

\* the wire type of a natural type when MapType ran before MapStruct
Wire(n) == IF n \in DOMAIN typemap THEN typemap[n] ELSE n

\* two leaf fields of the type resolve to the same column
SpecDup(t) ==
    LET ls == SpecLeaves(t)
    IN  \E a, b \in DOMAIN ls : a # b /\ ls[a].col = ls[b].col

\* a leaf field of the type has an empty or not lowercase column
SpecBad(t) ==
    LET ls == SpecLeaves(t)
    IN  \E a \in DOMAIN ls : ls[a].col = <<>> \/ ToLower(ls[a].col) # ls[a].col

\* this step is a MapStruct call that passed the init() check
MapStructStep == last'.op = "MapStruct" /\ last'.err # ErrNotInit

(***************************************************************************)
(* C5: the wire type of every registry entry is the one it gets when all   *)
(* MapType calls run before the MapStruct calls, in whatever order the     *)
(* calls were made.                                                        *)
(***************************************************************************)
C5_OrderIndependent ==
    \A t \in TopTypes :
      Registered(t) =>
        LET ls == SpecLeaves(t)
        IN  \A k \in DOMAIN ls :
              /\ mapping[FieldKey(t, ls[k].path)].typ = Wire(ls[k].nat)
              /\ mapping[ColumnKey(t, ls[k].col)].typ = Wire(ls[k].nat)

(***************************************************************************)
(* C6: once main() runs, MapStruct and MapType return an error and the     *)
(* registry and the type table never change.                               *)
(***************************************************************************)
C6_Step ==
    phase = "main" =>
        /\ mapping' = mapping
        /\ typemap' = typemap
        /\ last'.op \in {"MapStruct", "MapType"} => last'.err # ErrNil

C6_SealedAfterInit == [][C6_Step]_vars

(***************************************************************************)
(* C7: a MapStruct call for a struct that is already registered returns    *)
(* "already mapped" and changes nothing; a call returns nil only for       *)
(* structs not registered before, and a mark once written stays.           *)
(***************************************************************************)
C7_Step ==
    /\ MapStructStep =>
        /\ Registered(last'.args[1]) =>
              /\ last'.err = ErrMapped
              /\ mapping' = mapping
        /\ last'.err = ErrNil =>
              \A k \in DOMAIN last'.args :
                 /\ ~Registered(last'.args[k])
                 /\ \A k2 \in DOMAIN last'.args :
                       k2 # k => last'.args[k2] # last'.args[k]
    /\ \A t \in TopTypes :
          Registered(t) =>
             /\ Name(t) \in DOMAIN mapping'
             /\ mapping'[Name(t)] = mapping[Name(t)]

C7_RegisteredOnce == [][C7_Step]_vars

C7_Witness ==
    /\ last = [op |-> "MapStruct", args |-> <<"Item">>, err |-> ErrMapped]
    /\ Registered("Item")

(***************************************************************************)
(* C8: MapStruct never returns nil for a struct two of whose leaf fields   *)
(* (its own or nested) resolve to the same column, and returns the         *)
(* duplicate-column error when nothing else is wrong with the struct; the  *)
(* fields of a registered struct have pairwise different columns.          *)
(***************************************************************************)
C8_Distinct ==
    \A t \in TopTypes :
      Registered(t) =>
        LET fs == mapping[Name(t)].name
        IN  \A a, b \in DOMAIN fs :
              a # b => mapping[FieldKey(t, fs[a])].name
                         # mapping[FieldKey(t, fs[b])].name

\* the last call was MapStruct and it passed the init() check
MapStructReturned == last.op = "MapStruct" /\ last.err # ErrNotInit

C8_NoDuplicateColumn ==
    /\ C8_Distinct
    /\ MapStructReturned =>
          /\ last.err = ErrNil =>
                \A k \in DOMAIN last.args : ~SpecDup(last.args[k])
          /\ (/\ Len(last.args) = 1
              /\ last.args[1] \in TopTypes
              /\ last.err # ErrMapped
              /\ SpecDup(last.args[1])
              /\ ~SpecBad(last.args[1]))
                => last.err = ErrDupCol

\* the duplicate is in a nested struct
C8_Witness ==
    /\ last = [op |-> "MapStruct", args |-> <<"F">>, err |-> ErrDupCol]
    /\ ~Registered("F")

(***************************************************************************)
(* C9: after MapStruct of a struct succeeds, every exported leaf field has *)
(* its column-to-field entry under the column (the tag's, else the         *)
(* lowercase field name) and its field-to-column entry under its dotted    *)
(* path, both with the field's offset from the base of the struct and its  *)
(* wire type.                                                              *)
(***************************************************************************)
C9_Entries(m, t, withType) ==
    LET ls == SpecLeaves(t)
    IN  \A k \in DOMAIN ls :
          /\ ColumnKey(t, ToLower(ls[k].col)) \in DOMAIN m
          /\ FieldKey(t, ls[k].path) \in DOMAIN m
          /\ m[ColumnKey(t, ToLower(ls[k].col))].offset = ls[k].offset
          /\ m[FieldKey(t, ls[k].path)].offset = ls[k].offset
          /\ m[FieldKey(t, ls[k].path)].name = ls[k].col
          /\ m[ColumnKey(t, ToLower(ls[k].col))].typ
                = m[FieldKey(t, ls[k].path)].typ
          /\ withType => m[FieldKey(t, ls[k].path)].typ = Wire(ls[k].nat)

C9_FieldEntries ==
    /\ (MapStructReturned /\ last.err = ErrNil) =>
          \A k \in DOMAIN last.args : C9_Entries(mapping, last.args[k], TRUE)
    /\ \A t \in TopTypes : Registered(t) => C9_Entries(mapping, t, FALSE)

\* O is registered: a tagged field of a nested struct and a field two
\* levels down, after []string was given a wire type
C9_Witness ==
    /\ last = [op |-> "MapStruct", args |-> <<"O">>, err |-> ErrNil]
    /\ Registered("S")
    /\ "[]string" \in DOMAIN typemap
    /\ mapping[ColumnKey("O", <<"y","y">>)].offset = 16
    /\ mapping[ColumnKey("O", <<"y","y">>)].typ = typemap["[]string"]
    /\ mapping[FieldKey("O", <<"I","n",".","D","e",".","V">>)].offset = 40

(***************************************************************************)
(* C10: MapStruct of a struct returns the bad-tag error when the column    *)
(* the tag parser yields for one of its fields (the value of the key       *)
(* token, else the lowercase field name) is empty or not lowercase, and    *)
(* otherwise maps every field under the column the parser yields.          *)
(***************************************************************************)
C10_TagParser ==
    (/\ last.op = "MapStruct" /\ Len(last.args) = 1
     /\ last.err \notin {ErrNotInit, ErrInvalid, ErrMapped})
    => LET t == last.args[1]
           ls == SpecLeaves(t)
       IN  /\ (SpecBad(t) /\ ~SpecDup(t)) => last.err = ErrBadTag
           /\ ~SpecBad(t) => last.err \in {ErrNil, ErrDupCol}
           /\ last.err = ErrNil =>
                 \A k \in DOMAIN ls :
                    mapping[FieldKey(t, ls[k].path)].name = ls[k].col

(***************************************************************************)
(* C16: MapStruct descends into a field of struct type other than          *)
(* time.Time and maps the leaves of the nested struct under the outermost  *)
(* type, with dotted paths that leave out the outermost type's name, and   *)
(* lists these paths depth first in declaration order.  As claimed, it     *)
(* does so also for a struct field with a column tag, which is never a     *)
(* leaf; as amended, a struct field with a column tag is mapped as a leaf  *)
(* under its tagged column and only one without is descended into.         *)
(***************************************************************************)
\* the exported struct fields (other than time.Time) of type t that a walk
\* reaches, with their dotted paths; the walk descends into every struct
\* field (always), or only into those without a column tag
RECURSIVE NestedFrom(_, _, _, _)
NestedFrom(t, prefix, k, always) ==
    IF k > NumField(t) THEN <<>>
    ELSE LET tt == Field(t, k)
             pa == JoinPath(prefix, tt.Name)
             tagged == KeyTokens(tt.tag) # {}
             here ==
               IF \/ ~IsUpper(tt.Name[1]) \/ Kind(tt.Type) # "struct"
                  \/ tt.Type = "time.Time"
               THEN <<>>
               ELSE << [path |-> pa, tagged |-> tagged, type |-> tt.Type] >>
                    \o (IF always \/ ~tagged
                        THEN NestedFrom(tt.Type, pa, 1, always) ELSE <<>>)
         IN  here \o NestedFrom(t, prefix, k + 1, always)

\* the dotted paths of the leaves of type t when every struct field other
\* than time.Time is descended into, depth first in declaration order
RECURSIVE LeafPathsFrom(_, _, _)
LeafPathsFrom(t, prefix, k) ==
    IF k > NumField(t) THEN <<>>
    ELSE LET tt == Field(t, k)
             pa == JoinPath(prefix, tt.Name)
             here ==
               IF ~IsUpper(tt.Name[1]) THEN <<>>
               ELSE IF Kind(tt.Type) = "struct" /\ tt.Type # "time.Time"
               THEN LeafPathsFrom(tt.Type, pa, 1)
               ELSE <<pa>>
         IN  here \o LeafPathsFrom(t, prefix, k + 1)

\* the field list of the mark of a mapped struct
FieldList(t) == mapping[Name(t)].name

\* the claim as stated
C16_AlwaysDescends ==
    \A t \in TopTypes :
      Registered(t) =>
        LET ns == NestedFrom(t, <<>>, 1, TRUE)
            ps == LeafPathsFrom(t, <<>>, 1)
        IN  /\ \A n \in DOMAIN ns : FieldKey(t, ns[n].path) \notin DOMAIN mapping
            /\ \A k \in DOMAIN ps : FieldKey(t, ps[k]) \in DOMAIN mapping
            /\ FieldList(t) = ps

\* the claim as amended
C16_DescendsUnlessTagged ==
    /\ \A t \in TopTypes :
         Registered(t) =>
           LET ns == NestedFrom(t, <<>>, 1, FALSE)
           IN  /\ \A n \in DOMAIN ns :
                    IF ns[n].tagged
                    THEN /\ FieldKey(t, ns[n].path) \in DOMAIN mapping
                         /\ \E k \in DOMAIN FieldList(t) :
                               FieldList(t)[k] = ns[n].path
                    ELSE /\ FieldKey(t, ns[n].path) \notin DOMAIN mapping
                         /\ \A k \in DOMAIN SpecLeaves(ns[n].type) :
                               FieldKey(t, JoinPath(ns[n].path,
                                     SpecLeaves(ns[n].type)[k].path))
                                  \in DOMAIN mapping
               /\ FieldList(t) = DefaultPaths(t)
    /\ (MapStructReturned /\ last.err = ErrDupCol) =>
          \E k \in DOMAIN last.args : SpecDup(last.args[k])

\* O with its nested In and In.De, and S whose struct field In is tagged
C16_Witness ==
    /\ Registered("O") /\ Registered("S")
    /\ FieldList("O") = << <<"X">>, <<"I","n",".","Y">>,
                            <<"I","n",".","D","e",".","V">>,
                            <<"I","n",".","Z">>, <<"W">> >>
    /\ FieldList("S") = << <<"I","n">>, <<"V">> >>
    /\ mapping[FieldKey("S", <<"I","n">>)].name = <<"d">>

(***************************************************************************)
(* C19: after a MapStruct call that returned the bad-tag, the              *)
(* duplicate-column or the invalid-struct error for a type, the registry   *)
(* holds no column-to-field and no field-to-column entry of that type:     *)
(* a type that is not marked as mapped has no entry.                       *)
(***************************************************************************)
\* the registry keys of the entries of type t
EntriesOf(t) ==
    {k \in DOMAIN mapping :
        \/ HasPrefix(k, <<"0", ".">> \o Name(t) \o <<".">>)
        \/ HasPrefix(k, <<"1", ".">> \o Name(t) \o <<".">>)}

C19_NoLeftovers ==
    (MapStructReturned /\ last.err \in {ErrBadTag, ErrDupCol, ErrInvalid}) =>
       \A t \in TopTypes : ~Registered(t) => EntriesOf(t) = {}

(***************************************************************************)
(* The claims about the arguments and the results of Scan.                 *)
(***************************************************************************)
\* the type is pointer to slice of pointer to struct
WellShaped(t) ==
    /\ Len(t) = 4
    /\ SubSeq(t, 1, 3) = <<"ptr", "slice", "ptr">>
    /\ t[4] \in StructTypes

\* Scan has been called
ScanCalled == rows.Columns # <<>>

(***************************************************************************)
(* C11: Scan without a destination returns the no-destination error, Scan  *)
(* with a destination that is not a pointer to a slice of pointers to      *)
(* structs returns the bad-destination error, whatever the type of that    *)
(* destination is; in both cases no column was read and no row fetched.    *)
(***************************************************************************)
C11_BadArguments ==
    /\ (ScanCalled /\ dargs = <<>>) =>
          pc = "idle" /\ err = ErrNoDest /\ col = <<>> /\ rows.got = <<>>
    /\ (\E d \in DOMAIN dargs : ~WellShaped(dargs[d])) =>
          pc = "idle" /\ err = ErrBadDest /\ col = <<>> /\ rows.got = <<>>

(***************************************************************************)
(* C12: when every column binds and the cursor delivers no row (and does   *)
(* not fail), Scan returns nil and every destination is an empty slice     *)
(* that is not nil, whether it was nil or held records before the call.    *)
(***************************************************************************)
C12_ZeroRows ==
    (/\ pc = "idle" /\ ScanCalled /\ ts # <<>>
     /\ rows.got = <<>> /\ err \notin {ErrNoMapping, ErrRows})
    => /\ err = ErrNil
       /\ DOMAIN dest = DOMAIN dargs
       /\ \A d \in DOMAIN dest : ~dest[d].isnil /\ dest[d].e = <<>>

\* two destinations that held a record each are emptied
C12_Witness ==
    /\ pc = "idle" /\ err = ErrNil /\ rows.got = <<>>
    /\ ts = <<"P", "Q">>
    /\ \A d \in DOMAIN dest0 : dest0[d].e # <<>>
    /\ \A d \in DOMAIN dest : ~dest[d].isnil /\ dest[d].e = <<>>

(***************************************************************************)
(* C15: for every row Scan appends a new record to the destinations some   *)
(* column is bound to.  As claimed, a destination no column is bound to    *)
(* gets no record; as amended, it gets a record too, with all its fields   *)
(* zero, so that every destination has one record per row.                 *)
(***************************************************************************)
\* some column is bound to destination d (1-based)
Bound(d) == \E c \in DOMAIN ref : ref[c].name = d - 1

\* the rows are being received, or have been
Receiving == pc = "rows" \/ (pc = "idle" /\ ts # <<>> /\ err # ErrNoMapping)

\* the claim as stated
C15_BoundOnly ==
    Receiving =>
      \A d \in DOMAIN rsa :
        /\ Bound(d) => Len(rsa[d].e) = Len(rows.got)
        /\ ~Bound(d) => rsa[d].e = <<>>

\* the claim as amended
C15_EveryDestination ==
    Receiving =>
      \A d \in DOMAIN rsa :
        /\ Len(rsa[d].e) = Len(rows.got)
        /\ ~Bound(d) =>
              \A r \in DOMAIN rsa[d].e :
                 rsa[d].e[r] = [o \in Slots(ts[d], 0) |-> Zero]

\* two rows into P and Q with no column for Q
C15_Witness ==
    /\ ScanDone /\ ts = <<"P", "Q">> /\ ~Bound(2) /\ Bound(1)
    /\ Len(rows.got) = 2
    /\ Len(dest[2].e) = 2

(***************************************************************************)
(* C20: Scan returns "has no mapping" only when a column with a name is    *)
(* mapped neither by the destination that is current at that column nor    *)
(* by the next one; an empty column only moves to the next destination     *)
(* and is no error by itself, also after the columns of the last           *)
(* destination.                                                            *)
(***************************************************************************)
\* from column k (1-based) on with the current destination d (0-based),
\* some column with a name cannot be resolved
RECURSIVE Unresolved(_, _)
Unresolved(k, d) ==
    IF k > Len(rows.Columns) THEN FALSE
    ELSE IF rows.Columns[k] = <<>> THEN Unresolved(k + 1, d + 1)
    ELSE LET c == Matched(rows.Columns[k])
         IN  IF Maps(d, c) THEN Unresolved(k + 1, d)
             ELSE IF Maps(d + 1, c) THEN Unresolved(k + 1, d + 1)
             ELSE TRUE

C20_OnlyNamedColumnsFail ==
    (pc = "idle" /\ ts # <<>> /\ err = ErrNoMapping) => Unresolved(1, 0)

(***************************************************************************)
(* C21: in a binding that scanField returns without error, a column with   *)
(* a name is bound to a destination whose index is at least 0, less than   *)
(* the number of destinations and not less than the index of any bound     *)
(* column before it, and an empty column is bound to no destination: its   *)
(* value goes to the discard target and no field receives it.              *)
(***************************************************************************)
\* scanField has returned a binding
Bindings == pc = "rows" \/ (pc = "idle" /\ ts # <<>> /\ err # ErrNoMapping)

C21_Binding ==
    Bindings =>
      /\ DOMAIN ref = DOMAIN rows.Columns
      /\ \A c \in DOMAIN ref :
           IF rows.Columns[c] = <<>>
           THEN /\ ref[c].name = NoDest
                /\ \A d \in DOMAIN rsa : \A r \in DOMAIN rsa[d].e :
                     \A o \in DOMAIN rsa[d].e[r] :
                        rsa[d].e[r][o] # <<rows.got[r], c>>
           ELSE /\ ref[c].name \in 0..(Len(dargs) - 1)
                /\ \A b \in 1..(c - 1) :
                     rows.Columns[b] # <<>> => ref[b].name <= ref[c].name

\* [a, b, "", a] into P and Q, with a row received
C21_Witness ==
    /\ pc = "rows" /\ Len(rows.got) = 1
    /\ Len(ref) = 4 /\ Len(dargs) = 2
    /\ ref[1].name = 0 /\ ref[2].name = 0
    /\ rows.Columns[3] = <<>> /\ ref[3].name = NoDest
    /\ ref[4].name = 1

(***************************************************************************)
(* The claims about Buildstr.                                              *)
(***************************************************************************)
\* Buildstr has returned or crashed
Built == last.op = "Buildstr"

\* data is a slice of pointers to structs of a mapped type
SliceData ==
    /\ Len(bdata.typ) = 3
    /\ SubSeq(bdata.typ, 1, 2) = <<"slice", "ptr">>
    /\ bdata.typ[3] \in TopTypes \cup {"N"}
    /\ Registered(bdata.typ[3])

\* data is a pointer to a struct of a mapped type
PtrData ==
    /\ Len(bdata.typ) = 2
    /\ bdata.typ[1] = "ptr"
    /\ bdata.typ[2] \in TopTypes \cup {"N"}
    /\ Registered(bdata.typ[2])

\* a value of the wire type can be written as a literal
Renderable(w) == HasValuer(w) \/ Kind(w) \in {"bool", "int", "string"}

\* the literal of the value val of wire type w
Literal(w, val) ==
    IF HasValuer(w) THEN Quote(Value(val))
    ELSE IF Kind(w) = "bool" THEN FormatBool(val)
    ELSE IF Kind(w) = "int" THEN FormatInt(val)
    ELSE Quote(val)

Paren(str) == <<"(">> \o str \o <<")">>

\* the literal tuple of the struct x of type t for the field paths fs
TupleOf(t, x, fs) ==
    Paren(Join([k \in DOMAIN fs |->
                  Literal(Wire(LeafAt(t, fs[k]).nat), x[LeafAt(t, fs[k]).offset])],
               <<",">>))

(***************************************************************************)
(* C13: Buildstr of a non-empty slice of records without a field list      *)
(* returns "(" columns ") VALUES " tuples: the columns of the type's       *)
(* fields in the default order joined by commas, and one parenthesized     *)
(* tuple per element in element order joined by commas, each with the      *)
(* literals of these fields in the same order; for [{1,"a"},{2,"b"}] of    *)
(* Item it is (id,name) VALUES (1,"a"),(2,"b").                            *)
(***************************************************************************)
C13_Text ==
    <<"(","i","d",",","n","a","m","e",")"," ","V","A","L","U","E","S"," ",
      "(","1",",","\"","a","\"",")",",","(","2",",","\"","b","\"",")">>

C13_Items == <<PtrTo(0 :> 1 @@ 8 :> <<"a">>), PtrTo(0 :> 2 @@ 8 :> <<"b">>)>>

C13_DefaultTuples ==
    /\ (Built /\ SliceData /\ bfield = <<>> /\ bdata.e # <<>>) =>
          LET t  == bdata.typ[3]
              fs == DefaultPaths(t)
              ok == /\ \A n \in DOMAIN bdata.e : ~bdata.e[n].isnil
                    /\ \A k \in DOMAIN fs : Renderable(Wire(LeafAt(t, fs[k]).nat))
          IN  /\ ok => last.err = ErrNil
              /\ last.err = ErrNil =>
                    /\ ok
                    /\ bsql =
                         Paren(Join([k \in DOMAIN fs |-> LeafAt(t, fs[k]).col],
                                    <<",">>))
                         \o <<" ","V","A","L","U","E","S"," ">>
                         \o Join([n \in DOMAIN bdata.e |->
                                     TupleOf(t, bdata.e[n].v, fs)], <<",">>)
    /\ (Built /\ bdata = [typ |-> <<"slice", "ptr", "Item">>, e |-> C13_Items]
           /\ bfield = <<>>)
          => last.err = ErrNil /\ bsql = C13_Text

C13_Witness ==
    /\ Built /\ bfield = <<>> /\ last.err = ErrNil
    /\ bdata = [typ |-> <<"slice", "ptr", "Item">>, e |-> C13_Items]
    /\ bsql = C13_Text

(***************************************************************************)
(* C14: Buildstr of a pointer to a record with a field list returns the    *)
(* clauses column=literal of the listed fields, in the order of the list,  *)
(* joined by commas, and nothing for any other field.  As claimed, the     *)
(* text is these clauses alone (name="x" for {ID:5,Name:"x"} and [Name]);  *)
(* as amended, the text is "SET " followed by these clauses.               *)
(***************************************************************************)
\* the clause of the field path f of the struct x of type t
ClauseOf(t, x, f) ==
    LeafAt(t, f).col \o <<"=">>
    \o Literal(Wire(LeafAt(t, f).nat), x[LeafAt(t, f).offset])

\* the call builds every listed field of the record
C14_Buildable ==
    /\ ~bdata.e[1].isnil
    /\ \A k \in DOMAIN bfield :
          /\ IsLeaf(bdata.typ[2], bfield[k])
          /\ Renderable(Wire(LeafAt(bdata.typ[2], bfield[k]).nat))

C14_Clauses ==
    Join([k \in DOMAIN bfield |->
            ClauseOf(bdata.typ[2], bdata.e[1].v, bfield[k])], <<",">>)

C14_Example ==
    /\ Built /\ bfield = << <<"N","a","m","e">> >>
    /\ bdata = [typ |-> <<"ptr", "Item">>,
                e |-> <<PtrTo(0 :> 5 @@ 8 :> <<"x">>)>>]

\* the claim as stated
C14_ClausesOnly ==
    /\ (Built /\ PtrData /\ bfield # <<>>) =>
          /\ C14_Buildable => last.err = ErrNil
          /\ last.err = ErrNil => C14_Buildable /\ bsql = C14_Clauses
    /\ C14_Example =>
          last.err = ErrNil /\ bsql = <<"n","a","m","e","=","\"","x","\"">>

\* the claim as amended
C14_SetClauses ==
    /\ (Built /\ PtrData /\ bfield # <<>>) =>
          /\ C14_Buildable => last.err = ErrNil
          /\ last.err = ErrNil =>
                C14_Buildable /\ bsql = <<"S","E","T"," ">> \o C14_Clauses
    /\ C14_Example =>
          /\ last.err = ErrNil
          /\ bsql = <<"S","E","T"," ","n","a","m","e","=","\"","x","\"">>

C14_Witness ==
    /\ C14_Example
    /\ bsql = <<"S","E","T"," ","n","a","m","e","=","\"","x","\"">>

(***************************************************************************)
(* C17: a Buildstr call that returns an error returns the empty string     *)
(* with it, whatever was built before: for a type that is not mapped, for  *)
(* a listed field the type has no mapping of, for a nil element at any     *)
(* position of the slice, and for a field that cannot be rendered.         *)
(***************************************************************************)
\* data is a non-empty slice of pointers, or a pointer, to a struct type
RecordData ==
    \/ /\ Len(bdata.typ) = 3 /\ SubSeq(bdata.typ, 1, 2) = <<"slice", "ptr">>
       /\ bdata.typ[3] \in StructTypes /\ bdata.e # <<>>
    \/ /\ Len(bdata.typ) = 2 /\ bdata.typ[1] = "ptr"
       /\ bdata.typ[2] \in StructTypes

\* the fields the call is to build
Wanted(t) == IF bfield = <<>> THEN DefaultPaths(t) ELSE bfield

C17_EmptyOnError ==
    Built =>
      /\ last.err \notin {ErrNil, Panic} => bsql = <<>>
      /\ (RecordData /\ ~Registered(bdata.typ[Len(bdata.typ)]))
            => last.err = ErrNoStruct
      /\ (SliceData /\ bdata.e # <<>>) =>
            LET t  == bdata.typ[3]
                fs == Wanted(t)
            IN  IF \E k \in DOMAIN fs : ~IsLeaf(t, fs[k])
                THEN last.err = ErrNoField
                ELSE /\ (\E n \in DOMAIN bdata.e : bdata.e[n].isnil)
                          => last.err \in {ErrNilElem, ErrNoValue}
                     /\ (\E k \in DOMAIN fs :
                            ~Renderable(Wire(LeafAt(t, fs[k]).nat)))
                          => last.err \in {ErrNilElem, ErrNoValue}
                     /\ bdata.e[1].isnil => last.err = ErrNilElem
      /\ (PtrData /\ ~bdata.e[1].isnil) =>
            LET t  == bdata.typ[2]
                fs == Wanted(t)
            IN  (\E k \in DOMAIN fs :
                    \/ ~IsLeaf(t, fs[k])
                    \/ ~Renderable(Wire(LeafAt(t, fs[k]).nat)))
                => last.err \in {ErrNoField, ErrNoValue}

\* the second element is nil: the columns and the first tuple were built
C17_Witness ==
    /\ Built /\ last.err = ErrNilElem /\ bsql = <<>>
    /\ bdata.typ = <<"slice", "ptr", "Item">> /\ bfield = <<>>
    /\ Len(bdata.e) = 2 /\ ~bdata.e[1].isnil /\ bdata.e[2].isnil

(***************************************************************************)
(* C18: when a field to build has a wire type that neither implements      *)
(* driver.Valuer nor is a boolean, an integer, a float or a string,        *)
(* Buildstr fails with "cannot be valued", for a listed field as well as   *)
(* for a field of the default list: no such field is left out of a         *)
(* string that Buildstr returns.                                           *)
(***************************************************************************)
\* the records and the field paths of the call are all there
C18_Complete ==
    /\ \/ SliceData /\ bdata.e # <<>>
       \/ PtrData
    /\ \A n \in DOMAIN bdata.e : ~bdata.e[n].isnil
    /\ \A k \in DOMAIN Wanted(bdata.typ[Len(bdata.typ)]) :
          IsLeaf(bdata.typ[Len(bdata.typ)],
                 Wanted(bdata.typ[Len(bdata.typ)])[k])

\* a field of the call cannot be rendered
C18_Unrenderable ==
    LET t == bdata.typ[Len(bdata.typ)]
    IN  \E k \in DOMAIN Wanted(t) :
           ~Renderable(Wire(LeafAt(t, Wanted(t)[k]).nat))

C18_NeverSkipped ==
    (Built /\ C18_Complete) =>
       /\ C18_Unrenderable => last.err = ErrNoValue /\ bsql = <<>>
       /\ ~C18_Unrenderable => last.err = ErrNil /\ bsql # <<>>

\* the default fields of O: In.Y has a mapped type with Value(), In.Z has not
C18_Witness ==
    /\ Built /\ bfield = <<>> /\ bdata.typ = <<"ptr", "O">>
    /\ ~bdata.e[1].isnil
    /\ HasValuer(Wire("[]string"))
    /\ last.err = ErrNoValue

====
